---- MODULE Spec2Model ----
(***************************************************************************)
(* Model of the group/app assignment workflow of intune-macos-tools:       *)
(*   - AppManager.assign_app_to_group and AppManager.bulk_assign_apps      *)
(*     (src/src/intune_tools/modules/app_manager.py),                      *)
(*   - GraphClient.get_app_assignments / create_app_assignment             *)
(*     (src/src/intune_tools/core/graph_client.py),                        *)
(*   - GroupFirstAssignmentScreen (src/intune_tools.py).                   *)
(* Every await on the remote Graph API is a suspension point of the model: *)
(* the batch stops at pc = "listing" or pc = "creating" until the remote   *)
(* answers, with a value or with an exception.                             *)
(***************************************************************************)
EXTENDS Integers, Sequences, FiniteSets, TLC

(***************************************************************************)
(* Bounds of the model.                                                    *)
(***************************************************************************)
(* the number of requests of a behaviour the remote answers with an error *)
MaxFailures == 2

(* the number of pages the service splits a collection into *)
MaxPages == 3

(* the number of credentials one AuthManager constructs *)
MaxCredentials == 3

(* the groups and the macOS apps the tenant holds *)
GroupIds == {"G1", "G2"}
AppIds == {"A1", "A2"}

(* dict.get('groupId') of a target without that key *)
None == "None"

Intents == {"required", "available", "uninstall"}

VARIABLES
    caller,           \* "tui": the screen drives the batch; "api": bulk_assign_apps is called
    seeded,           \* remote: the assignments the service held before the batch
    assignments,      \* remote: the mobileAppAssignment objects the service holds
    calls,            \* remote: the requests of the batch in order, each with its answer
    faults,           \* remote: number of requests answered with an error so far
    selected_groups,  \* GroupFirstAssignmentScreen.selected_groups
    selected_apps,    \* GroupFirstAssignmentScreen.selected_apps
    widgets,          \* values of #intent-radio, #notify, #restart, #override
    toast,            \* the last self.notify(...) of the screen
    pc,               \* position of the batch coroutine: "idle", "loop", "listing",
                      \* "creating", "done" (returned) or "raised" (left by an exception)
    app_ids,          \* bulk_assign_apps: app_ids; apply_assignments: iteration order of selected_apps
    group_ids,        \* bulk_assign_apps: group_ids; apply_assignments: iteration order of selected_groups
    args,             \* intent, notify, restart_required, override_existing of the batch
    k,                \* 1-based index of the current pair in the nested loops
    results,          \* bulk_assign_apps: the results dictionary
    success_count,    \* apply_assignments: success_count
    error_count,      \* apply_assignments: error_count
    log,              \* records written by app_manager's logger, in order
    returned,         \* what the batch handed to its caller: <<>> before it returns
    previous,         \* outcome of the earlier run when the same batch is run again
    directory,        \* remote: the ids of the groups and of the apps the tenant holds
    self_groups,      \* GroupFirstAssignmentScreen.groups: ids of the groups fetched last
    self_apps,        \* GroupFirstAssignmentScreen.apps: ids of the apps fetched last
    group_cards,      \* the GroupCards mounted in #groups-container: group id -> card.display
    app_cards,        \* the AppCards mounted in #apps-container: app id -> card.display
    summary,          \* content of the #selection-summary Static
    loading,          \* the load tasks action_refresh created that await their fetch
    clicked,          \* the widget the last click hit: the id of the group or app of a
                      \* card, the id of a button, None before the first click
    clear,            \* GraphClient.clear_app_assignments: its position and its locals
    fetch,            \* GraphClient.get_all_*: its position, its locals and the pages
                      \* the service will answer with
    app,              \* IntuneMacOSTools: position of on_mount and the attributes it sets
    auth              \* AuthManager: its attributes and the position of authenticate_*

clientVars == <<clear, fetch, app, auth>>
setup == <<caller, seeded, previous, clientVars>>
remoteVars == <<assignments, calls, faults>>
screenVars == <<selected_groups, selected_apps, widgets, toast>>
batchVars == <<pc, app_ids, group_ids, args, k, results, success_count, error_count, log, returned>>
viewVars == <<directory, self_groups, self_apps, group_cards, app_cards, loading>>
vars == <<caller, seeded, previous, directory, self_groups, self_apps, group_cards, app_cards, summary,
          loading, clicked, assignments, calls, faults, selected_groups, selected_apps, widgets, toast,
          pc, app_ids, group_ids, args, k, results, success_count, error_count, log, returned,
          clear, fetch, app, auth>>

(***************************************************************************)
(* Inputs.                                                                 *)
(***************************************************************************)

(* the settings the user can put on the right panel before pressing Apply;
   the first one is what compose() builds *)
DefaultWidgets == [intent |-> "required", notify |-> TRUE, restart |-> FALSE, override |-> TRUE]

WidgetChoices ==
    { DefaultWidgets,
      [intent |-> "uninstall", notify |-> FALSE, restart |-> TRUE, override |-> FALSE],
      [intent |-> "available", notify |-> TRUE, restart |-> FALSE, override |-> FALSE] }

(* the intent and the **settings keyword arguments a caller of
   bulk_assign_apps passes; a key that is absent takes assign_app_to_group's
   default *)
BulkChoices ==
    { [intent |-> "required", settings |-> [name \in {} |-> TRUE]],
      [intent |-> "available", settings |-> [name \in {"override_existing"} |-> FALSE]],
      [intent |-> "uninstall",
       settings |-> [name \in {"notify", "restart_required", "override_existing"} |->
                        IF name = "restart_required" THEN TRUE ELSE FALSE]] }

(* the orderings of the subsets of S *)
Orders(S) ==
    UNION { { f \in [1..Cardinality(T) -> T] : \A i, j \in DOMAIN f : f[i] = f[j] => i = j }
            : T \in SUBSET S }

(* the lists a caller of bulk_assign_apps passes: the orderings of the
   subsets of S, and the lists that name one id twice *)
BulkLists(S) == Orders(S) \cup { <<x, x>> : x \in S }

(* the iteration orders of a Python set *)
SetOrders(S) == { f \in Orders(S) : Len(f) = Cardinality(S) }

GroupTarget == "#microsoft.graph.groupAssignmentTarget"
AllDevicesTarget == "#microsoft.graph.allDevicesAssignmentTarget"

(* the assignments the service can hold before the batch starts: any subset
   of these *)
RemoteUniverse ==
    { [app_id |-> "A1", target_type |-> GroupTarget, group_id |-> "G1", intent |-> "required"],
      [app_id |-> "A2", target_type |-> GroupTarget, group_id |-> "G2", intent |-> "uninstall"],
      [app_id |-> "A1", target_type |-> AllDevicesTarget, group_id |-> None,
       intent |-> "required"] }

(* the exceptions a failing request raises *)
Exceptions ==
    { [type |-> "APIError", message |-> "quota exceeded"],
      [type |-> "ClientAuthenticationError", message |-> "token expired"] }

NoToast == [title |-> "", severity |-> "", message |-> <<>>]

(***************************************************************************)
(* GraphClient: parsing of the listing.                                    *)
(***************************************************************************)

(* is_group_type as the comparison target_type == "group" *)
is_group_type_exact(target_type) == target_type \in {"group"}

(* 'group' in target_type.lower() *)
is_group_type(target_type) == target_type \in {GroupTarget}

(* the parsed target; groupId is None where the dictionary has no such key *)
_parse_assignment_target(target) ==
    [type |-> target.target_type,
     groupId |-> IF is_group_type(target.target_type) THEN target.group_id ELSE None]

(* get_app_assignments with the test of the response inverted: no value is
   ever read *)
get_app_assignments_empty(app_id) == {}

(* the value get_app_assignments returns when the request succeeds *)
get_app_assignments(app_id) ==
    { [intent |-> a.intent, target |-> _parse_assignment_target(a)]
      : a \in { x \in assignments : x.app_id = app_id } }

(* the object create_app_assignment posts *)
new_assignment(app_id, target_id, intent) ==
    [app_id |-> app_id, target_type |-> GroupTarget, group_id |-> target_id, intent |-> intent]

(***************************************************************************)
(* AppManager.                                                             *)
(***************************************************************************)

(* already_assigned with the intent compared as well *)
already_assigned_same_intent(existing, group_id) ==
    \E assignment \in existing :
        assignment.target.groupId = group_id /\ assignment.intent = args.intent

(* the for-loop of assign_app_to_group over the listing *)
already_assigned(existing, group_id) ==
    \E assignment \in existing : assignment.target.groupId = group_id

(* "showAll" if notify else "hideAll" *)
notifications_of(notify) == IF notify THEN "showAll" ELSE "hideAll"

(* str(e) of an exception built from one message *)
str(e) == e.message

(* a keyword argument of assign_app_to_group, or its default *)
keyword(settings, name, default) ==
    IF name \in DOMAIN settings THEN settings[name] ELSE default

(* bulk_pairs as "for app_id, group_id in zip(app_ids, group_ids)" *)
bulk_pairs_zipped(apps, groups) ==
    [n \in 1..(IF Len(apps) < Len(groups) THEN Len(apps) ELSE Len(groups)) |->
        [app_id |-> apps[n], group_id |-> groups[n]]]

(* the pairs of "for app_id in app_ids: for group_id in group_ids", in order *)
bulk_pairs(apps, groups) ==
    [n \in 1..(Len(apps) * Len(groups)) |->
        [app_id |-> apps[((n - 1) \div Len(groups)) + 1],
         group_id |-> groups[((n - 1) % Len(groups)) + 1]]]

(* apply_pairs with the loops nested the other way round *)
apply_pairs_app_major(groups, apps) ==
    [n \in 1..(Len(groups) * Len(apps)) |->
        [app_id |-> apps[((n - 1) \div Len(groups)) + 1],
         group_id |-> groups[((n - 1) % Len(groups)) + 1]]]

(* the pairs of "for group_id in selected_groups: for app_id in selected_apps" *)
apply_pairs(groups, apps) ==
    [n \in 1..(Len(groups) * Len(apps)) |->
        [app_id |-> apps[((n - 1) % Len(apps)) + 1],
         group_id |-> groups[((n - 1) \div Len(apps)) + 1]]]

(* the pairs the running batch goes through *)
plan == IF caller = "api" THEN bulk_pairs(app_ids, group_ids)
        ELSE apply_pairs(group_ids, app_ids)

(* results['total'] *)
bulk_total(apps, groups) == Len(apps) * Len(groups)

(* nothing_selected with "and" for "or" *)
nothing_selected_both(groups, apps) == groups = {} /\ apps = {}

(* the condition of the early return of apply_assignments *)
nothing_selected(groups, apps) == groups = {} \/ apps = {}

(* the index of the pair the loops take after pair n *)
next_pair(n) == n + 1

(***************************************************************************)
(* The values of the attributes and locals of the client-side objects      *)
(* before any of their methods has run.                                    *)
(***************************************************************************)

(* clear_app_assignments not called *)
NoClear == [pc |-> "idle", app_id |-> None, listed |-> <<>>, count |-> 0, result |-> <<>>]

(* no get_all_* called *)
NoFetch == [pc |-> "idle", kind |-> None, chain |-> <<>>, page |-> 0, items |-> <<>>,
            result |-> <<>>]

(* IntuneMacOSTools.__init__; pc is the place on_mount has come to, user the
   answer of the connection test *)
NoApp == [pc |-> "constructed", auth_method |-> None, auth_manager |-> FALSE,
          graph_client |-> None, user |-> None, main_interface |-> "",
          exited |-> FALSE, toast |-> ""]

(* AuthManager.__init__; asked is the credential whose get_token is running
   or ran last, obtained the credential the token endpoint last gave a token
   to, made the number of credentials constructed, result the outcome of the
   last call *)
NoAuth == [pc |-> "idle", credential |-> None, auth_method |-> None,
           is_authenticated |-> FALSE, asked |-> None, obtained |-> None,
           made |-> 0, result |-> ""]

(***************************************************************************)
(* GroupFirstAssignmentScreen: what the handlers compute.                  *)
(***************************************************************************)

(* the cards load_groups / load_apps mount for the fetched ids: a new card
   is displayed *)
mounted_cards(ids) == [id \in ids |-> TRUE]

(* the ids of the cards whose display is True *)
visible(cards) == { id \in DOMAIN cards : cards[id] }

(* the characters of displayName.lower() of each group and app *)
displayName ==
    [id \in GroupIds \cup AppIds |->
        IF id = "G1" THEN {"g", "1"}
        ELSE IF id = "G2" THEN {"g", "2"}
        ELSE IF id = "A1" THEN {"a", "1"}
        ELSE {"a", "2"}]

(* the values typed into #group-search and #app-search: nothing, or one
   character *)
SearchTerms == {"", "1", "x"}

(* search_term in displayName.lower() *)
matches(search_term, id) == search_term = "" \/ search_term \in displayName[id]

(* the content of #selection-summary before update_summary ran *)
NoSummary == [groups |-> -1, apps |-> -1, assignments |-> -1]

(* update_summary: the two sizes and their product *)
update_summary(sel_groups, sel_apps) ==
    [groups |-> Cardinality(sel_groups), apps |-> Cardinality(sel_apps),
     assignments |-> Cardinality(sel_groups) * Cardinality(sel_apps)]

(* toggled with the id added whether present or not *)
toggled_add_only(selection, id) == selection \cup {id}

(* toggle_*_selection on the selected set: remove the id if present, add it
   if absent *)
toggled(selection, id) ==
    IF id \in selection THEN selection \ {id} ELSE selection \cup {id}

(***************************************************************************)
(* Initial state: the screen as __init__ and compose() build it, no batch  *)
(* running, and a service that holds some assignments already.             *)
(***************************************************************************)
Init ==
    /\ caller \in {"tui", "api"}
    /\ seeded \in SUBSET RemoteUniverse
    /\ assignments = seeded
    /\ calls = <<>>
    /\ faults = 0
    /\ selected_groups = {}
    /\ selected_apps = {}
    /\ widgets = DefaultWidgets
    /\ toast = NoToast
    /\ pc = "idle"
    /\ app_ids = <<>>
    /\ group_ids = <<>>
    /\ args = [intent |-> "required", notify |-> TRUE, restart_required |-> FALSE,
               override_existing |-> TRUE]
    /\ k = 1
    /\ results = [total |-> 0, success |-> 0, failed |-> 0, errors |-> <<>>]
    /\ success_count = 0
    /\ error_count = 0
    /\ log = <<>>
    /\ returned = <<>>
    /\ previous = <<>>
    /\ directory = [groups |-> GroupIds, apps |-> AppIds]
    /\ self_groups = GroupIds
    /\ self_apps = AppIds
    /\ group_cards = mounted_cards(GroupIds)
    /\ app_cards = mounted_cards(AppIds)
    /\ summary = update_summary({}, {})
    /\ loading = {}
    /\ clicked = None
    /\ clear = NoClear
    /\ fetch = NoFetch
    /\ app = NoApp
    /\ auth = NoAuth

(* The screen right after its construction: nothing fetched, no card       *)
(* mounted, the summary empty as compose leaves it.                        *)
InitScreen ==
    /\ caller = "tui"
    /\ seeded = {}
    /\ assignments = seeded
    /\ calls = <<>>
    /\ faults = 0
    /\ selected_groups = {}
    /\ selected_apps = {}
    /\ widgets = DefaultWidgets
    /\ toast = NoToast
    /\ pc = "constructed"
    /\ app_ids = <<>>
    /\ group_ids = <<>>
    /\ args = [intent |-> "required", notify |-> TRUE, restart_required |-> FALSE,
               override_existing |-> TRUE]
    /\ k = 1
    /\ results = [total |-> 0, success |-> 0, failed |-> 0, errors |-> <<>>]
    /\ success_count = 0
    /\ error_count = 0
    /\ log = <<>>
    /\ returned = <<>>
    /\ previous = <<>>
    /\ directory = [groups |-> GroupIds, apps |-> AppIds]
    /\ self_groups = {}
    /\ self_apps = {}
    /\ group_cards = mounted_cards({})
    /\ app_cards = mounted_cards({})
    /\ summary = NoSummary
    /\ loading = {}
    /\ clicked = None
    /\ clear = NoClear
    /\ fetch = NoFetch
    /\ app = NoApp
    /\ auth = NoAuth

(* toggle_group_selection run while a batch is suspended on a request, as
   if apply_assignments did not occupy the screen's message loop *)
toggle_group_selection_unserialised(group_id) ==
    /\ caller = "tui"
    /\ pc \in {"idle", "loop", "listing", "creating"}
    /\ clicked' = group_id
    /\ group_id \in visible(group_cards)
    /\ selected_groups' = toggled(selected_groups, group_id)
    /\ summary' = update_summary(selected_groups', selected_apps)
    /\ UNCHANGED <<setup, viewVars, remoteVars, selected_apps, widgets, toast, batchVars>>

(***************************************************************************)
(* GroupFirstAssignmentScreen: selection.  The screen handles one message  *)
(* at a time: while apply_assignments is suspended on a request, a click   *)
(* waits in the screen's queue, so the handlers below run at pc = "idle".  *)
(***************************************************************************)
toggle_group_selection(group_id) ==
    /\ caller = "tui"
    /\ pc = "idle"
    /\ clicked' = group_id
    /\ group_id \in visible(group_cards)
    /\ selected_groups' = toggled(selected_groups, group_id)
    /\ summary' = update_summary(selected_groups', selected_apps)
    /\ UNCHANGED <<setup, viewVars, remoteVars, selected_apps, widgets, toast, batchVars>>

toggle_app_selection(app_id) ==
    /\ caller = "tui"
    /\ pc = "idle"
    /\ clicked' = app_id
    /\ app_id \in visible(app_cards)
    /\ selected_apps' = toggled(selected_apps, app_id)
    /\ summary' = update_summary(selected_groups, selected_apps')
    /\ UNCHANGED <<setup, viewVars, remoteVars, selected_groups, widgets, toast, batchVars>>

(* filter_groups with the ids of the cards it hides taken out of the
   selection *)
filter_groups_deselects(search_term) ==
    /\ caller = "tui"
    /\ pc = "idle"
    /\ group_cards' = [id \in DOMAIN group_cards |-> matches(search_term, id)]
    /\ selected_groups' = { id \in selected_groups :
                              id \in DOMAIN group_cards => matches(search_term, id) }
    /\ UNCHANGED <<setup, clicked, directory, self_groups, self_apps, app_cards, loading,
                   summary, remoteVars, selected_apps, widgets, toast, batchVars>>

(* filter_groups / filter_apps: every mounted card is displayed exactly when
   the search term occurs in its name *)
filter_groups(search_term) ==
    /\ caller = "tui"
    /\ pc = "idle"
    /\ group_cards' = [id \in DOMAIN group_cards |-> matches(search_term, id)]
    /\ UNCHANGED <<setup, clicked, directory, self_groups, self_apps, app_cards, loading, summary,
                   remoteVars, screenVars, batchVars>>

filter_apps(search_term) ==
    /\ caller = "tui"
    /\ pc = "idle"
    /\ app_cards' = [id \in DOMAIN app_cards |-> matches(search_term, id)]
    /\ UNCHANGED <<setup, clicked, directory, self_groups, self_apps, group_cards, loading, summary,
                   remoteVars, screenVars, batchVars>>

(* select_all_groups without its call of update_summary *)
select_all_groups_stale_summary ==
    /\ caller = "tui"
    /\ pc = "idle"
    /\ clicked' = "select-all-groups"
    /\ selected_groups' = selected_groups \cup visible(group_cards)
    /\ UNCHANGED <<setup, viewVars, summary, remoteVars, selected_apps, widgets, toast,
                   batchVars>>

(* the "Select All" buttons: the id of every displayed card is added *)
select_all_groups ==
    /\ caller = "tui"
    /\ pc = "idle"
    /\ clicked' = "select-all-groups"
    /\ selected_groups' = selected_groups \cup visible(group_cards)
    /\ summary' = update_summary(selected_groups', selected_apps)
    /\ UNCHANGED <<setup, viewVars, remoteVars, selected_apps, widgets, toast, batchVars>>

(* select_all_apps with the selection replaced by the displayed cards *)
select_all_apps_replaces ==
    /\ caller = "tui"
    /\ pc = "idle"
    /\ clicked' = "select-all-apps"
    /\ selected_apps' = visible(app_cards)
    /\ summary' = update_summary(selected_groups, selected_apps')
    /\ UNCHANGED <<setup, viewVars, remoteVars, selected_groups, widgets, toast, batchVars>>

select_all_apps ==
    /\ caller = "tui"
    /\ pc = "idle"
    /\ clicked' = "select-all-apps"
    /\ selected_apps' = selected_apps \cup visible(app_cards)
    /\ summary' = update_summary(selected_groups, selected_apps')
    /\ UNCHANGED <<setup, viewVars, remoteVars, selected_groups, widgets, toast, batchVars>>

(* the "Clear" buttons *)
clear_groups ==
    /\ caller = "tui"
    /\ pc = "idle"
    /\ clicked' = "clear-groups"
    /\ selected_groups' = {}
    /\ summary' = update_summary(selected_groups', selected_apps)
    /\ UNCHANGED <<setup, viewVars, remoteVars, selected_apps, widgets, toast, batchVars>>

clear_apps ==
    /\ caller = "tui"
    /\ pc = "idle"
    /\ clicked' = "clear-apps"
    /\ selected_apps' = {}
    /\ summary' = update_summary(selected_groups, selected_apps')
    /\ UNCHANGED <<setup, viewVars, remoteVars, selected_groups, widgets, toast, batchVars>>

(* preview_assignments with the selection dropped once it was shown *)
preview_assignments_consumes ==
    /\ caller = "tui"
    /\ pc = "idle"
    /\ clicked' = "preview"
    /\ selected_groups' = {}
    /\ selected_apps' = {}
    /\ toast' = [title |-> "Assignment Preview", severity |-> "information",
                 message |-> <<"Preview",
                               Cardinality(selected_groups) * Cardinality(selected_apps),
                               widgets.intent,
                               self_groups \cap selected_groups,
                               self_apps \cap selected_apps>>]
    /\ UNCHANGED <<setup, viewVars, summary, remoteVars, widgets, batchVars>>

(* the "Preview" button: a warning when a set is empty, otherwise the count,
   the intent and the names of the fetched groups and apps that are selected *)
preview_assignments ==
    /\ caller = "tui"
    /\ pc = "idle"
    /\ clicked' = "preview"
    /\ toast' = IF nothing_selected(selected_groups, selected_apps)
                THEN [title |-> "", severity |-> "warning",
                      message |-> <<"Please select at least one group and one app">>]
                ELSE [title |-> "Assignment Preview", severity |-> "information",
                      message |-> <<"Preview",
                                    Cardinality(selected_groups) * Cardinality(selected_apps),
                                    widgets.intent,
                                    self_groups \cap selected_groups,
                                    self_apps \cap selected_apps>>]
    /\ UNCHANGED <<setup, viewVars, summary, remoteVars, selected_groups, selected_apps,
                   widgets, batchVars>>

(***************************************************************************)
(* GroupFirstAssignmentScreen: loading.  on_mount awaits load_groups, then *)
(* load_apps, then updates the summary; it is a handler of the screen, so  *)
(* no click is handled before it has finished.  action_refresh creates one *)
(* task per load and returns: the two fetches are answered in any order,   *)
(* while the screen goes on handling messages.  A fetch that raises leaves *)
(* the list as it was and the container without cards.                     *)
(***************************************************************************)

(* an administrator removes a group or an app from the tenant *)
tenant_removes(id) ==
    /\ directory = [groups |-> GroupIds, apps |-> AppIds]
    /\ directory' = [groups |-> GroupIds \ {id}, apps |-> AppIds \ {id}]
    /\ UNCHANGED <<setup, clicked, self_groups, self_apps, group_cards, app_cards, loading, summary,
                   remoteVars, screenVars, batchVars>>

(* load_groups after its await: ok tells whether get_all_groups returned *)
load_groups(ok) ==
    IF ok
    THEN /\ self_groups' = directory.groups
         /\ group_cards' = mounted_cards(directory.groups)
    ELSE /\ group_cards' = mounted_cards({})
         /\ UNCHANGED self_groups

(* load_apps after its await: ok tells whether get_macos_apps returned *)
load_apps(ok) ==
    IF ok
    THEN /\ self_apps' = directory.apps
         /\ app_cards' = mounted_cards(directory.apps)
    ELSE /\ app_cards' = mounted_cards({})
         /\ UNCHANGED self_apps

on_mount ==
    /\ pc = "constructed"
    /\ pc' = "mount_groups"
    /\ UNCHANGED <<setup, clicked, viewVars, summary, remoteVars, screenVars, app_ids, group_ids, args,
                   k, results, success_count, error_count, log, returned>>

on_mount_groups(ok) ==
    /\ pc = "mount_groups"
    /\ load_groups(ok)
    /\ pc' = "mount_apps"
    /\ UNCHANGED <<setup, clicked, directory, self_apps, app_cards, loading, summary, remoteVars,
                   screenVars, app_ids, group_ids, args, k, results, success_count,
                   error_count, log, returned>>

on_mount_apps(ok) ==
    /\ pc = "mount_apps"
    /\ load_apps(ok)
    /\ summary' = update_summary(selected_groups, selected_apps)
    /\ pc' = "idle"
    /\ UNCHANGED <<setup, clicked, directory, self_groups, group_cards, loading, remoteVars,
                   screenVars, app_ids, group_ids, args, k, results, success_count,
                   error_count, log, returned>>

(* ctrl+r, once the screen is mounted and no earlier refresh is still loading *)
action_refresh ==
    /\ caller = "tui"
    /\ pc \notin {"constructed", "mount_groups", "mount_apps"}
    /\ loading = {}
    /\ loading' = {"load_groups", "load_apps"}
    /\ UNCHANGED <<setup, clicked, directory, self_groups, self_apps, group_cards, app_cards, summary,
                   remoteVars, screenVars, batchVars>>

refresh_groups(ok) ==
    /\ "load_groups" \in loading
    /\ load_groups(ok)
    /\ loading' = loading \ {"load_groups"}
    /\ UNCHANGED <<setup, clicked, directory, self_apps, app_cards, summary, remoteVars, screenVars,
                   batchVars>>

refresh_apps(ok) ==
    /\ "load_apps" \in loading
    /\ load_apps(ok)
    /\ loading' = loading \ {"load_apps"}
    /\ UNCHANGED <<setup, clicked, directory, self_groups, group_cards, summary, remoteVars,
                   screenVars, batchVars>>

(* the user changes the radio set and the checkboxes of the right panel *)
change_settings(w) ==
    /\ caller = "tui"
    /\ pc = "idle"
    /\ clicked' = "settings-container"
    /\ w # widgets
    /\ widgets' = w
    /\ UNCHANGED <<setup, viewVars, summary, remoteVars, selected_groups, selected_apps, toast, batchVars>>

(***************************************************************************)
(* The two batches, up to their first await.                               *)
(***************************************************************************)
apply_assignments ==
    /\ caller = "tui"
    /\ pc = "idle"
    /\ clicked' = "apply"
    /\ IF nothing_selected(selected_groups, selected_apps)
       THEN /\ toast' = [title |-> "", severity |-> "error",
                         message |-> <<"Please select at least one group and one app">>]
            /\ UNCHANGED <<setup, viewVars, summary, remoteVars, selected_groups, selected_apps, widgets, batchVars>>
       ELSE /\ args' = [intent |-> widgets.intent, notify |-> widgets.notify,
                        restart_required |-> widgets.restart,
                        override_existing |-> widgets.override]
            /\ toast' = [title |-> "Processing", severity |-> "information",
                         message |-> <<"Applying",
                                       Cardinality(selected_groups) * Cardinality(selected_apps)>>]
            /\ success_count' = 0
            /\ error_count' = 0
            /\ \E g \in SetOrders(selected_groups) : group_ids' = g
            /\ \E a \in SetOrders(selected_apps) : app_ids' = a
            /\ k' = 1
            /\ pc' = "loop"
            /\ UNCHANGED <<setup, viewVars, summary, remoteVars, selected_groups, selected_apps, widgets,
                           results, log, returned>>

bulk_assign_apps(apps, groups, intent, settings) ==
    /\ caller = "api"
    /\ pc = "idle"
    /\ app_ids' = apps
    /\ group_ids' = groups
    /\ args' = [intent |-> intent,
                notify |-> keyword(settings, "notify", TRUE),
                restart_required |-> keyword(settings, "restart_required", FALSE),
                override_existing |-> keyword(settings, "override_existing", TRUE)]
    /\ results' = [total |-> bulk_total(apps, groups), success |-> 0, failed |-> 0,
                   errors |-> <<>>]
    /\ k' = 1
    /\ pc' = "loop"
    /\ UNCHANGED <<setup, clicked, viewVars, summary, remoteVars, screenVars, success_count, error_count, log, returned>>

(***************************************************************************)
(* One pair: assign_app_to_group, and what the loop body does with its     *)
(* outcome.                                                                *)
(***************************************************************************)
NoError == [type |-> "", message |-> ""]

(* create_request with the intent of the first pair left at the default *)
create_request_first_required(n, pair) ==
    [op |-> "create", k |-> n, app_id |-> pair.app_id, target_type |-> "group",
     target_id |-> pair.group_id, intent |-> IF n = 1 THEN "required" ELSE args.intent,
     notifications |-> notifications_of(args.notify),
     restart_required |-> args.restart_required, status |-> "pending", error |-> NoError]

(* the request create_app_assignment sends for the pair of loop index n *)
create_request(n, pair) ==
    [op |-> "create", k |-> n, app_id |-> pair.app_id, target_type |-> "group",
     target_id |-> pair.group_id, intent |-> args.intent,
     notifications |-> notifications_of(args.notify),
     restart_required |-> args.restart_required, status |-> "pending", error |-> NoError]

(* the request get_app_assignments sends for the pair of loop index n *)
list_request(n, pair) ==
    [op |-> "list", k |-> n, app_id |-> pair.app_id, status |-> "pending", error |-> NoError]

(* the request in flight is answered *)
answered(status, e) ==
    [calls EXCEPT ![Len(calls)].status = status, ![Len(calls)].error = e]

log_record(level, event, pair, error) ==
    [level |-> level, event |-> event, app_id |-> pair.app_id, group_id |-> pair.group_id,
     error |-> error]

(* an except clause that names the API error alone *)
except_APIError(e) == e.type = "APIError"

(* "except Exception": the exceptions the two handlers catch *)
except_Exception(e) == e.type \in {"APIError", "ClientAuthenticationError"}

(* pair_succeeded without the increment of the counter *)
pair_succeeded_uncounted ==
    /\ UNCHANGED <<results, success_count, error_count>>
    /\ k' = next_pair(k)
    /\ pc' = "loop"

(* assign_app_to_group returned: the line after the await of the loop body *)
pair_succeeded ==
    /\ IF caller = "api"
       THEN /\ results' = [results EXCEPT !.success = @ + 1]
            /\ UNCHANGED <<success_count, error_count>>
       ELSE /\ success_count' = success_count + 1
            /\ UNCHANGED <<results, error_count>>
    /\ k' = next_pair(k)
    /\ pc' = "loop"

(* pair_failed with an except clause that swallows the failure uncounted *)
pair_failed_uncounted(e) ==
    /\ log' = Append(log, log_record("error", "failed", plan[k], str(e)))
    /\ k' = next_pair(k)
    /\ pc' = "loop"
    /\ UNCHANGED <<results, success_count, error_count>>

(* pair_failed with an except clause that counts the failure and leaves the
   loops *)
pair_failed_breaks(e) ==
    /\ log' = Append(log, log_record("error", "failed", plan[k], str(e)))
    /\ IF caller = "api"
       THEN /\ results' = [results EXCEPT
                             !.failed = @ + 1,
                             !.errors = Append(@, [app_id |-> plan[k].app_id,
                                                   group_id |-> plan[k].group_id,
                                                   error |-> str(e)])]
            /\ UNCHANGED <<success_count, error_count>>
       ELSE /\ error_count' = error_count + 1
            /\ UNCHANGED <<results, success_count>>
    /\ k' = Len(plan) + 1
    /\ pc' = "loop"

(* pair_failed with the authentication error let through as the failure of
   the whole call *)
pair_failed_auth_propagates(e) ==
    IF e.type = "ClientAuthenticationError"
    THEN /\ pc' = "raised"
         /\ UNCHANGED <<k, results, success_count, error_count, log>>
    ELSE pair_failed_breaks(e)

(* pair_failed with the entry put at the front of the errors list *)
pair_failed_prepends(e) ==
    /\ log' = Append(log, log_record("error", "failed", plan[k], str(e)))
    /\ IF caller = "api"
       THEN /\ results' = [results EXCEPT
                             !.failed = @ + 1,
                             !.errors = <<[app_id |-> plan[k].app_id,
                                           group_id |-> plan[k].group_id,
                                           error |-> str(e)]>> \o @]
            /\ UNCHANGED <<success_count, error_count>>
       ELSE /\ error_count' = error_count + 1
            /\ UNCHANGED <<results, success_count>>
    /\ k' = next_pair(k)
    /\ pc' = "loop"

(* a request raised e inside assign_app_to_group: its handler logs and
   re-raises, the except clause of the loop body counts the failure; an
   exception neither handler catches leaves the batch *)
pair_failed(e) ==
    IF except_Exception(e)
    THEN /\ log' = Append(log, log_record("error", "failed", plan[k], str(e)))
         /\ IF caller = "api"
            THEN /\ results' = [results EXCEPT
                                  !.failed = @ + 1,
                                  !.errors = Append(@, [app_id |-> plan[k].app_id,
                                                        group_id |-> plan[k].group_id,
                                                        error |-> str(e)])]
                 /\ UNCHANGED <<success_count, error_count>>
            ELSE /\ error_count' = error_count + 1
                 /\ UNCHANGED <<results, success_count>>
         /\ k' = next_pair(k)
         /\ pc' = "loop"
    ELSE /\ pc' = "raised"
         /\ UNCHANGED <<k, results, success_count, error_count, log>>

(* assign_app_to_group with the listing asked once per app: a later pair of
   an app already listed goes straight to the create request *)
assign_app_to_group_listing_once ==
    /\ pc = "loop"
    /\ k <= Len(plan)
    /\ IF ~args.override_existing
          /\ ~\E i \in DOMAIN calls : calls[i].op = "list" /\ calls[i].app_id = plan[k].app_id
       THEN /\ calls' = Append(calls, list_request(k, plan[k]))
            /\ pc' = "listing"
       ELSE /\ calls' = Append(calls, create_request(k, plan[k]))
            /\ pc' = "creating"
    /\ UNCHANGED <<setup, clicked, viewVars, summary, assignments, faults, screenVars, app_ids, group_ids, args, k,
                   results, success_count, error_count, log, returned>>

(* assign_app_to_group with the listing asked whatever override_existing is *)
assign_app_to_group_always_lists ==
    /\ pc = "loop"
    /\ k <= Len(plan)
    /\ calls' = Append(calls, list_request(k, plan[k]))
    /\ pc' = "listing"
    /\ UNCHANGED <<setup, clicked, viewVars, summary, assignments, faults, screenVars, app_ids, group_ids, args, k,
                   results, success_count, error_count, log, returned>>

(* the loop takes its next pair and assign_app_to_group runs to its first await *)
assign_app_to_group ==
    /\ pc = "loop"
    /\ k <= Len(plan)
    /\ IF ~args.override_existing
       THEN /\ calls' = Append(calls, list_request(k, plan[k]))
            /\ pc' = "listing"
       ELSE /\ calls' = Append(calls, create_request(k, plan[k]))
            /\ pc' = "creating"
    /\ UNCHANGED <<setup, clicked, viewVars, summary, assignments, faults, screenVars, app_ids, group_ids, args, k,
                   results, success_count, error_count, log, returned>>

(* the listing request is answered with the assignments of the app *)
listing_returns ==
    /\ pc = "listing"
    /\ IF already_assigned(get_app_assignments(plan[k].app_id), plan[k].group_id)
       THEN /\ calls' = answered("ok", NoError)
            /\ log' = Append(log, log_record("info", "exists", plan[k], ""))
            /\ pair_succeeded
       ELSE /\ calls' = Append(answered("ok", NoError), create_request(k, plan[k]))
            /\ pc' = "creating"
            /\ UNCHANGED <<k, results, success_count, error_count, log>>
    /\ UNCHANGED <<setup, clicked, viewVars, summary, assignments, faults, screenVars, app_ids, group_ids, args, returned>>

(* listing_raises with the failure swallowed and the listing taken as empty *)
listing_raises_assumes_none(e) ==
    /\ pc = "listing"
    /\ faults < MaxFailures
    /\ faults' = faults + 1
    /\ calls' = Append(answered("error", e), create_request(k, plan[k]))
    /\ pc' = "creating"
    /\ UNCHANGED <<setup, clicked, viewVars, summary, assignments, screenVars, app_ids, group_ids, args, k, results,
                   success_count, error_count, log, returned>>

(* listing_raises with the batch given up after the failure is counted *)
listing_raises_stops(e) ==
    /\ pc = "listing"
    /\ faults < MaxFailures
    /\ faults' = faults + 1
    /\ calls' = answered("error", e)
    /\ pair_failed_breaks(e)
    /\ UNCHANGED <<setup, clicked, viewVars, summary, assignments, screenVars, app_ids, group_ids, args, returned>>

(* the listing request fails: get_app_assignments raises *)
listing_raises(e) ==
    /\ pc = "listing"
    /\ faults < MaxFailures
    /\ faults' = faults + 1
    /\ calls' = answered("error", e)
    /\ pair_failed(e)
    /\ UNCHANGED <<setup, clicked, viewVars, summary, assignments, screenVars, app_ids, group_ids, args, returned>>

(* the create request succeeds: the service now holds the assignment *)
create_returns ==
    /\ pc = "creating"
    /\ assignments' = assignments \cup
                        {new_assignment(plan[k].app_id, plan[k].group_id, args.intent)}
    /\ calls' = answered("ok", NoError)
    /\ log' = Append(log, log_record("info", "assigned", plan[k], ""))
    /\ pair_succeeded
    /\ UNCHANGED <<setup, clicked, viewVars, summary, faults, screenVars, app_ids, group_ids, args, returned>>

(* create_raises with the request sent again after a failure *)
create_raises_retries(e) ==
    /\ pc = "creating"
    /\ faults < MaxFailures
    /\ faults' = faults + 1
    /\ calls' = Append(answered("error", e), create_request(k, plan[k]))
    /\ UNCHANGED <<setup, clicked, viewVars, summary, assignments, screenVars, batchVars>>

(* the create request fails: create_app_assignment raises *)
create_raises(e) ==
    /\ pc = "creating"
    /\ faults < MaxFailures
    /\ faults' = faults + 1
    /\ calls' = answered("error", e)
    /\ pair_failed(e)
    /\ UNCHANGED <<setup, clicked, viewVars, summary, assignments, screenVars, app_ids, group_ids, args, returned>>

(* batch_returns with the result handed out wherever the loops stand *)
batch_returns_early ==
    /\ pc = "loop"
    /\ pc' = "done"
    /\ IF caller = "api"
       THEN /\ returned' = <<results>>
            /\ UNCHANGED toast
       ELSE /\ toast' = [title |-> "Assignment Complete",
                         severity |-> IF error_count = 0 THEN "information" ELSE "warning",
                         message |-> <<"Success", success_count, "Failed", error_count>>]
            /\ UNCHANGED returned
    /\ UNCHANGED <<setup, clicked, viewVars, summary, remoteVars, selected_groups, selected_apps, widgets, app_ids,
                   group_ids, args, k, results, success_count, error_count, log>>

(* the loops are exhausted: bulk_assign_apps returns results,
   apply_assignments shows the summary *)
batch_returns ==
    /\ pc = "loop"
    /\ k > Len(plan)
    /\ pc' = "done"
    /\ IF caller = "api"
       THEN /\ returned' = <<results>>
            /\ UNCHANGED toast
       ELSE /\ toast' = [title |-> "Assignment Complete",
                         severity |-> IF error_count = 0 THEN "information" ELSE "warning",
                         message |-> <<"Success", success_count, "Failed", error_count>>]
            /\ UNCHANGED returned
    /\ UNCHANGED <<setup, clicked, viewVars, summary, remoteVars, selected_groups, selected_apps, widgets, app_ids,
                   group_ids, args, k, results, success_count, error_count, log>>

(***************************************************************************)
(* Cancellation.  The task that runs the batch is cancelled while it is    *)
(* suspended on a request: asyncio raises CancelledError at the await.     *)
(* CancelledError is a BaseException, so neither "except Exception" catches *)
(* it and the batch is left by it.  The request was already sent: a create *)
(* request may or may not have taken effect on the service.                *)
(***************************************************************************)
CancelledError == [type |-> "CancelledError", message |-> ""]

cancelled ==
    /\ pc \in {"listing", "creating"}
    /\ calls' = answered("cancelled", CancelledError)
    /\ \/ UNCHANGED assignments
       \/ /\ pc = "creating"
          /\ new_assignment(plan[k].app_id, plan[k].group_id, args.intent) \notin assignments
          /\ assignments' = assignments \cup
                              {new_assignment(plan[k].app_id, plan[k].group_id, args.intent)}
    /\ pair_failed(CancelledError)
    /\ UNCHANGED <<setup, clicked, viewVars, summary, faults, screenVars, app_ids, group_ids, args, returned>>

Next ==
    \/ \E g \in GroupIds : toggle_group_selection(g)
    \/ \E a \in AppIds : toggle_app_selection(a)
    \/ \E w \in WidgetChoices : change_settings(w)
    \/ apply_assignments
    \/ \E a \in BulkLists(AppIds), g \in BulkLists(GroupIds), c \in BulkChoices :
          bulk_assign_apps(a, g, c.intent, c.settings)
    \/ assign_app_to_group
    \/ listing_returns
    \/ \E e \in Exceptions : listing_raises(e)
    \/ create_returns
    \/ \E e \in Exceptions : create_raises(e)
    \/ batch_returns

Spec == Init /\ [][Next]_vars

(* the screen from its construction on, with its filters, buttons, loads and
   refreshes, and one batch whose requests the service all answers *)
NextScreen ==
    \/ on_mount
    \/ \E ok \in BOOLEAN : on_mount_groups(ok)
    \/ \E ok \in BOOLEAN : on_mount_apps(ok)
    \/ action_refresh
    \/ \E ok \in BOOLEAN : refresh_groups(ok)
    \/ \E ok \in BOOLEAN : refresh_apps(ok)
    \/ \E id \in GroupIds \cup AppIds : tenant_removes(id)
    \/ \E t \in SearchTerms : filter_groups(t)
    \/ \E t \in SearchTerms : filter_apps(t)
    \/ \E g \in GroupIds : toggle_group_selection(g)
    \/ \E a \in AppIds : toggle_app_selection(a)
    \/ select_all_groups
    \/ select_all_apps
    \/ clear_groups
    \/ clear_apps
    \/ \E w \in WidgetChoices : change_settings(w)
    \/ apply_assignments
    \/ assign_app_to_group
    \/ listing_returns
    \/ create_returns
    \/ batch_returns

ScreenSpec == InitScreen /\ [][NextScreen]_vars

(* the screen with its Preview button, in a tenant that does not change and
   without refreshes *)
NextPreview ==
    \/ on_mount
    \/ \E ok \in BOOLEAN : on_mount_groups(ok)
    \/ \E ok \in BOOLEAN : on_mount_apps(ok)
    \/ \E t \in SearchTerms : filter_groups(t)
    \/ \E t \in SearchTerms : filter_apps(t)
    \/ \E g \in GroupIds : toggle_group_selection(g)
    \/ \E a \in AppIds : toggle_app_selection(a)
    \/ select_all_groups
    \/ select_all_apps
    \/ clear_groups
    \/ clear_apps
    \/ \E w \in WidgetChoices : change_settings(w)
    \/ preview_assignments
    \/ apply_assignments
    \/ assign_app_to_group
    \/ listing_returns
    \/ create_returns
    \/ batch_returns

PreviewSpec == InitScreen /\ [][NextPreview]_vars

(***************************************************************************)
(* The same batch run a second time: the caller of bulk_assign_apps calls  *)
(* it again with the same arguments, the user presses Apply again with     *)
(* the selection and the settings untouched.  The service keeps what the   *)
(* first run created; the counters of the batch start afresh.              *)
(***************************************************************************)
rerun ==
    /\ pc = "done"
    /\ previous = <<>>
    /\ previous' = <<[failed |-> Cardinality({i \in DOMAIN log : log[i].event = "failed"}),
                      attempted |-> Len(log)]>>
    /\ calls' = <<>>
    /\ log' = <<>>
    /\ returned' = <<>>
    /\ k' = 1
    /\ pc' = "loop"
    /\ IF caller = "api"
       THEN /\ results' = [total |-> bulk_total(app_ids, group_ids), success |-> 0,
                           failed |-> 0, errors |-> <<>>]
            /\ UNCHANGED <<toast, success_count, error_count>>
       ELSE /\ toast' = [title |-> "Processing", severity |-> "information",
                         message |-> <<"Applying",
                                       Cardinality(selected_groups) * Cardinality(selected_apps)>>]
            /\ success_count' = 0
            /\ error_count' = 0
            /\ UNCHANGED results
    /\ UNCHANGED <<caller, seeded, clientVars, clicked, viewVars, summary, assignments, faults, selected_groups,
                   selected_apps, widgets, app_ids, group_ids, args>>

NextRerun ==
    \/ Next
    \/ rerun

RerunSpec == Init /\ [][NextRerun]_vars

(* the batch in an environment that may cancel it *)
NextCancel ==
    \/ Next
    \/ cancelled

CancelSpec == Init /\ [][NextCancel]_vars

(***************************************************************************)
(* GraphClient.clear_app_assignments, reached through                      *)
(* AppManager.remove_app_assignments.  It lists the assignments of the app *)
(* and deletes them one by one, awaiting each delete; the first exception, *)
(* of the listing or of a delete, is logged and raised.  The service       *)
(* answers the listing in an order of its own.                             *)
(***************************************************************************)
workflowVars == <<caller, seeded, previous, viewVars, summary, clicked, screenVars, batchVars>>

(* the request delete_app_assignment sends *)
delete_request(app_id, assignment) ==
    [op |-> "delete", app_id |-> app_id, assignment |-> assignment, status |-> "pending",
     error |-> NoError]

clear_app_assignments(app_id) ==
    /\ clear.pc = "idle"
    /\ clear' = [clear EXCEPT !.pc = "listing", !.app_id = app_id]
    /\ calls' = Append(calls, [op |-> "list", app_id |-> app_id, status |-> "pending",
                               error |-> NoError])
    /\ UNCHANGED <<workflowVars, assignments, faults, fetch, app, auth>>

clear_listing_returns(listed) ==
    /\ clear.pc = "listing"
    /\ { listed[i] : i \in DOMAIN listed } = { x \in assignments : x.app_id = clear.app_id }
    /\ clear' = [clear EXCEPT !.pc = "loop", !.listed = listed, !.count = 0]
    /\ calls' = answered("ok", NoError)
    /\ UNCHANGED <<workflowVars, assignments, faults, fetch, app, auth>>

clear_listing_raises(e) ==
    /\ clear.pc = "listing"
    /\ clear' = [clear EXCEPT !.pc = "raised"]
    /\ calls' = answered("error", e)
    /\ UNCHANGED <<workflowVars, assignments, faults, fetch, app, auth>>

(* the for loop takes the next listed assignment and sends its delete *)
delete_app_assignment ==
    /\ clear.pc = "loop"
    /\ clear.count < Len(clear.listed)
    /\ clear' = [clear EXCEPT !.pc = "deleting"]
    /\ calls' = Append(calls, delete_request(clear.app_id, clear.listed[clear.count + 1]))
    /\ UNCHANGED <<workflowVars, assignments, faults, fetch, app, auth>>

delete_returns ==
    /\ clear.pc = "deleting"
    /\ assignments' = assignments \ {clear.listed[clear.count + 1]}
    /\ clear' = [clear EXCEPT !.pc = "loop", !.count = @ + 1]
    /\ calls' = answered("ok", NoError)
    /\ UNCHANGED <<workflowVars, faults, fetch, app, auth>>

(* delete_raises with the failure skipped and the loop going on *)
delete_raises_skips(e) ==
    /\ clear.pc = "deleting"
    /\ clear' = [clear EXCEPT !.pc = "loop", !.count = @ + 1]
    /\ calls' = answered("error", e)
    /\ UNCHANGED <<workflowVars, assignments, faults, fetch, app, auth>>

delete_raises(e) ==
    /\ clear.pc = "deleting"
    /\ clear' = [clear EXCEPT !.pc = "raised"]
    /\ calls' = answered("error", e)
    /\ UNCHANGED <<workflowVars, assignments, faults, fetch, app, auth>>

(* the loop is exhausted: count is returned *)
clear_returns ==
    /\ clear.pc = "loop"
    /\ clear.count = Len(clear.listed)
    /\ clear' = [clear EXCEPT !.pc = "returned", !.result = <<clear.count>>]
    /\ UNCHANGED <<workflowVars, remoteVars, fetch, app, auth>>

InitClear == Init /\ caller = "api"

NextClear ==
    \/ \E a \in AppIds : clear_app_assignments(a)
    \/ \E l \in Orders(RemoteUniverse) : clear_listing_returns(l)
    \/ \E e \in Exceptions : clear_listing_raises(e)
    \/ delete_app_assignment
    \/ delete_returns
    \/ \E e \in Exceptions : delete_raises(e)
    \/ clear_returns

ClearSpec == InitClear /\ [][NextClear]_vars

(***************************************************************************)
(* GraphClient.get_all_groups, get_all_apps, get_all_devices: the same     *)
(* loop over the pages of a collection.  The first request returns the     *)
(* first page; a page with an odata_next_link is followed by a request for *)
(* the next one; a page without one ends the loop.  A page may be empty.   *)
(* Any exception of a page request is logged and raised.  get_all_groups   *)
(* also asks for the members of each group, and takes 0 when that request  *)
(* fails.                                                                  *)
(***************************************************************************)
Collections == {"groups", "apps", "devices"}

(* the ids of the objects of a collection *)
ItemIds == {"i1", "i2", "i3"}

(* the pages the service can answer with: up to MaxPages pages, each a list
   of objects, no object on two pages; every page but the last carries a
   next link *)
PageChains ==
    { c \in UNION { [1..n -> Orders(ItemIds)] : n \in 1..MaxPages } :
        \A p, q \in DOMAIN c :
            \A i \in DOMAIN c[p], j \in DOMAIN c[q] :
                c[p][i] = c[q][j] => (p = q /\ i = j) }

(* response.odata_next_link of page number p *)
odata_next_link(chain, p) == p < Len(chain)

(* the members the service holds for every group *)
members == {"u1", "u2"}

(* the dictionaries appended for the objects of one page; zero holds the
   groups whose member request failed *)
parsed(kind, page, zero) ==
    [n \in DOMAIN page |->
        [id |-> page[n],
         memberCount |-> IF kind # "groups" THEN None
                         ELSE IF page[n] \in zero THEN 0 ELSE Cardinality(members)]]

(* the first request of get_all_<kind> is sent *)
get_all(kind, chain) ==
    /\ fetch.pc = "idle"
    /\ fetch' = [fetch EXCEPT !.pc = "requesting", !.kind = kind, !.chain = chain,
                              !.page = 1]
    /\ UNCHANGED <<workflowVars, remoteVars, clear, app, auth>>

(* page_returns with the objects of the page that has no next link left out *)
page_returns_drops_last(zero) ==
    /\ fetch.pc = "requesting"
    /\ zero \subseteq { fetch.chain[fetch.page][i] : i \in DOMAIN fetch.chain[fetch.page] }
    /\ fetch.kind # "groups" => zero = {}
    /\ IF odata_next_link(fetch.chain, fetch.page)
       THEN fetch' = [fetch EXCEPT
                        !.items = @ \o parsed(fetch.kind, fetch.chain[fetch.page], zero),
                        !.page = @ + 1]
       ELSE fetch' = [fetch EXCEPT !.pc = "returned", !.result = <<fetch.items>>]
    /\ UNCHANGED <<workflowVars, remoteVars, clear, app, auth>>

(* the page asked for arrives: its objects are appended, then the next page
   is asked for or the list is returned *)
page_returns(zero) ==
    /\ fetch.pc = "requesting"
    /\ zero \subseteq { fetch.chain[fetch.page][i] : i \in DOMAIN fetch.chain[fetch.page] }
    /\ fetch.kind # "groups" => zero = {}
    /\ LET items == fetch.items \o parsed(fetch.kind, fetch.chain[fetch.page], zero)
       IN  IF odata_next_link(fetch.chain, fetch.page)
           THEN fetch' = [fetch EXCEPT !.items = items, !.page = @ + 1]
           ELSE fetch' = [fetch EXCEPT !.items = items, !.pc = "returned",
                                       !.result = <<items>>]
    /\ UNCHANGED <<workflowVars, remoteVars, clear, app, auth>>

(* the page request fails *)
page_raises(e) ==
    /\ fetch.pc = "requesting"
    /\ fetch' = [fetch EXCEPT !.pc = "raised"]
    /\ UNCHANGED <<workflowVars, remoteVars, clear, app, auth>>

InitPage == Init /\ caller = "api" /\ seeded = {}

(* the service answers the request, with a page or with an exception *)
page_answered ==
    \/ \E zero \in SUBSET ItemIds : page_returns(zero)
    \/ \E e \in Exceptions : page_raises(e)

NextPage ==
    \/ \E kind \in Collections, chain \in PageChains : get_all(kind, chain)
    \/ page_answered

(* a request that was sent is answered, and the event loop then resumes the
   call that awaits it *)
PageSpec == InitPage /\ [][NextPage]_vars /\ WF_vars(page_answered)

(***************************************************************************)
(* AuthManager.  Every authenticate_* constructs a credential, stores it   *)
(* and the method, and awaits _validate_authentication, which awaits a     *)
(* token for the stored credential: with a token is_authenticated becomes  *)
(* True, without one it becomes False and ClientAuthenticationError is     *)
(* raised.  _get_token_async turns every exception of get_token into None, *)
(* so the message of that error is always "Failed to obtain access token"  *)
(* and the device-code fallback of authenticate_browser, which looks for   *)
(* "redirect" in the message, is not taken.                                *)
(***************************************************************************)
AuthMethods == {"device_code", "browser", "custom", "certificate"}

(* the credential class each method constructs *)
credential_class(method) ==
    CASE method = "device_code" -> "DeviceCodeCredential"
      [] method = "browser"     -> "InteractiveBrowserCredential"
      [] method = "custom"      -> "ClientSecretCredential"
      [] method = "certificate" -> "CertificateCredential"

(* self.credential = ...; self.auth_method = ...; then the token request of
   _validate_authentication is sent for that credential *)
new_credential(a, method) ==
    [a EXCEPT !.credential = <<credential_class(method), a.made + 1>>,
              !.auth_method = method,
              !.asked = <<credential_class(method), a.made + 1>>,
              !.made = @ + 1,
              !.pc = "validating",
              !.result = ""]

(* _validate_authentication: a token came *)
token_obtained(a) ==
    [a EXCEPT !.is_authenticated = TRUE, !.obtained = a.asked, !.pc = "idle",
              !.result = "True"]

(* _validate_authentication: no token came *)
token_missing(a) ==
    [a EXCEPT !.is_authenticated = FALSE, !.pc = "idle",
              !.result = "ClientAuthenticationError"]

(* _load_custom_credentials gave nothing: ValueError before any assignment *)
creds_missing(a) == [a EXCEPT !.result = "ValueError"]

authenticate_device_code ==
    /\ auth.pc = "idle"
    /\ auth.made < MaxCredentials
    /\ auth' = new_credential(auth, "device_code")
    /\ UNCHANGED <<workflowVars, remoteVars, clear, fetch, app>>

authenticate_browser ==
    /\ auth.pc = "idle"
    /\ auth.made < MaxCredentials
    /\ auth' = new_credential(auth, "browser")
    /\ UNCHANGED <<workflowVars, remoteVars, clear, fetch, app>>

authenticate_custom(loaded) ==
    /\ auth.pc = "idle"
    /\ auth.made < MaxCredentials
    /\ auth' = IF loaded THEN new_credential(auth, "custom") ELSE creds_missing(auth)
    /\ UNCHANGED <<workflowVars, remoteVars, clear, fetch, app>>

authenticate_certificate(loaded) ==
    /\ auth.pc = "idle"
    /\ auth.made < MaxCredentials
    /\ auth' = IF loaded THEN new_credential(auth, "certificate") ELSE creds_missing(auth)
    /\ UNCHANGED <<workflowVars, remoteVars, clear, fetch, app>>

(* the token arrives, authenticate_* returns True *)
token_returns ==
    /\ auth.pc = "validating"
    /\ auth' = token_obtained(auth)
    /\ UNCHANGED <<workflowVars, remoteVars, clear, fetch, app>>

(* get_token raises, authenticate_* raises ClientAuthenticationError *)
token_fails ==
    /\ auth.pc = "validating"
    /\ auth' = token_missing(auth)
    /\ UNCHANGED <<workflowVars, remoteVars, clear, fetch, app>>

(* the task awaiting the token is cancelled: CancelledError is no
   Exception, no handler of AuthManager runs *)
validation_cancelled ==
    /\ auth.pc = "validating"
    /\ auth' = [auth EXCEPT !.pc = "idle", !.result = "CancelledError"]
    /\ UNCHANGED <<workflowVars, remoteVars, clear, fetch, app>>

(* logout: the caches are removed, then the attributes are reset; when a
   file cannot be removed the attributes stay and False is returned *)
logout(ok) ==
    /\ auth.pc = "idle"
    /\ auth' = IF ok THEN [auth EXCEPT !.credential = None, !.is_authenticated = FALSE,
                                       !.result = "logout True"]
                     ELSE [auth EXCEPT !.result = "logout False"]
    /\ UNCHANGED <<workflowVars, remoteVars, clear, fetch, app>>

InitAuth == Init /\ caller = "api" /\ seeded = {}

NextAuth ==
    \/ authenticate_device_code
    \/ authenticate_browser
    \/ \E loaded \in BOOLEAN : authenticate_custom(loaded)
    \/ \E loaded \in BOOLEAN : authenticate_certificate(loaded)
    \/ token_returns
    \/ token_fails
    \/ validation_cancelled
    \/ \E ok \in BOOLEAN : logout(ok)

(* a program that uses one AuthManager, one call at a time *)
AuthSpec == InitAuth /\ [][NextAuth]_vars

(***************************************************************************)
(* IntuneMacOSTools.on_mount: the login screen, the AuthManager, the       *)
(* chosen authenticate_*, the GraphClient, the connection test, the main   *)
(* interface.  Every step runs the handler up to its next await.           *)
(***************************************************************************)
LoginChoices == {"device", "browser", "custom"}

(* the authenticate_* on_mount calls for the value of the login screen *)
chosen_method(auth_method) ==
    CASE auth_method = "device"  -> "device_code"
      [] auth_method = "browser" -> "browser"
      [] auth_method = "custom"  -> "custom"

Users == {"Ada"}

(* except Exception as e: notify, exit *)
authentication_failed(a, e) ==
    [a EXCEPT !.pc = "exited", !.exited = TRUE,
              !.toast = [title |-> "Error", severity |-> "error",
                         message |-> <<"Authentication failed", e>>]]

(* on_mount pushes the login screen and waits for its value *)
app_on_mount ==
    /\ app.pc = "constructed"
    /\ app' = [app EXCEPT !.pc = "login"]
    /\ UNCHANGED <<workflowVars, remoteVars, clear, fetch, auth>>

(* escape on the login screen *)
action_cancel ==
    /\ app.pc = "login"
    /\ app' = [app EXCEPT !.pc = "exited", !.exited = TRUE]
    /\ UNCHANGED <<workflowVars, remoteVars, clear, fetch, auth>>

(* a button of the login screen dismisses it with its method; on_mount
   creates the AuthManager and calls the method's authenticate_* *)
handle_auth(auth_method, loaded) ==
    /\ app.pc = "login"
    /\ auth_method # "custom" => loaded
    /\ IF loaded
       THEN /\ auth' = new_credential(auth, chosen_method(auth_method))
            /\ app' = [app EXCEPT !.pc = "authenticating", !.auth_method = auth_method,
                                  !.auth_manager = TRUE]
       ELSE /\ auth' = creds_missing(auth)
            /\ app' = authentication_failed(
                        [app EXCEPT !.auth_method = auth_method, !.auth_manager = TRUE],
                        "ValueError")
    /\ UNCHANGED <<workflowVars, remoteVars, clear, fetch>>

(* authenticate_* returned: the GraphClient is created with the credential
   and the connection test is sent *)
on_mount_token_returns ==
    /\ app.pc = "authenticating"
    /\ auth.pc = "validating"
    /\ auth' = token_obtained(auth)
    /\ app' = [app EXCEPT !.pc = "testing", !.graph_client = auth.credential]
    /\ UNCHANGED <<workflowVars, remoteVars, clear, fetch>>

(* on_mount_token_fails with the exception of authenticate_* passed over *)
on_mount_token_fails_proceeds ==
    /\ app.pc = "authenticating"
    /\ auth.pc = "validating"
    /\ auth' = token_missing(auth)
    /\ app' = [app EXCEPT !.pc = "testing", !.graph_client = auth.credential]
    /\ UNCHANGED <<workflowVars, remoteVars, clear, fetch>>

(* authenticate_* raised *)
on_mount_token_fails ==
    /\ app.pc = "authenticating"
    /\ auth.pc = "validating"
    /\ auth' = token_missing(auth)
    /\ app' = authentication_failed(app, "ClientAuthenticationError")
    /\ UNCHANGED <<workflowVars, remoteVars, clear, fetch>>

(* get_current_user returned: the toast, then load_main_interface, which
   awaits nothing *)
get_current_user_returns(user) ==
    /\ app.pc = "testing"
    /\ app' = [app EXCEPT !.pc = "running", !.user = user,
                          !.main_interface = "loaded",
                          !.toast = [title |-> "Authentication Success",
                                     severity |-> "information",
                                     message |-> <<"Connected as", user>>]]
    /\ UNCHANGED <<workflowVars, remoteVars, clear, fetch, auth>>

(* get_current_user raised *)
get_current_user_raises(e) ==
    /\ app.pc = "testing"
    /\ app' = authentication_failed(app, e.type)
    /\ UNCHANGED <<workflowVars, remoteVars, clear, fetch, auth>>

(* the start button of the main interface pushes the assignment screen,
   built on the app's graph_client *)
start_assignment_workflow ==
    /\ app.main_interface = "loaded"
    /\ ~app.exited
    /\ on_mount

NextStart ==
    \/ app_on_mount
    \/ action_cancel
    \/ \E m \in LoginChoices, loaded \in BOOLEAN : handle_auth(m, loaded)
    \/ on_mount_token_returns
    \/ on_mount_token_fails
    \/ \E user \in Users : get_current_user_returns(user)
    \/ \E e \in Exceptions : get_current_user_raises(e)
    \/ start_assignment_workflow
    \/ \E ok \in BOOLEAN : on_mount_groups(ok)
    \/ \E ok \in BOOLEAN : on_mount_apps(ok)
    \/ \E g \in GroupIds : toggle_group_selection(g)
    \/ \E a \in AppIds : toggle_app_selection(a)

StartSpec == InitScreen /\ [][NextStart]_vars

(***************************************************************************)
(* What the properties below read off a state.                             *)
(***************************************************************************)
Range(f) == { f[i] : i \in DOMAIN f }

Pair(a, g) == [app_id |-> a, group_id |-> g]

CreateCalls == SelectSeq(calls, LAMBDA c : c.op = "create")

ListCalls == SelectSeq(calls, LAMBDA c : c.op = "list")

FailedCalls == SelectSeq(calls, LAMBDA c : c.status = "error")

(* the pairs assign_app_to_group has finished with, in order *)
Attempted == [n \in DOMAIN log |-> Pair(log[n].app_id, log[n].group_id)]

(* the groups and the apps the batch was given *)
BatchGroups == IF caller = "tui" THEN selected_groups ELSE Range(group_ids)

BatchApps == IF caller = "tui" THEN selected_apps ELSE Range(app_ids)

CrossProduct == { Pair(a, g) : a \in BatchApps, g \in BatchGroups }

(* C1: completeness. When bulk_assign_apps has returned, the result it
   returned has total = len(app_ids) * len(group_ids) and success + failed =
   total; when apply_assignments has finished, success_count + error_count =
   |selected_groups| * |selected_apps|; and exactly one outcome was logged
   per pair, so no pair is dropped or counted twice. *)
C1_Completeness ==
    pc = "done" =>
        /\ caller = "api" =>
              /\ Len(returned) = 1
              /\ returned[1].total = Len(app_ids) * Len(group_ids)
              /\ returned[1].success + returned[1].failed = returned[1].total
              /\ Len(log) = returned[1].total
        /\ caller = "tui" =>
              /\ success_count + error_count =
                    Cardinality(selected_groups) * Cardinality(selected_apps)
              /\ toast.message = <<"Success", success_count, "Failed", error_count>>
              /\ Len(log) = success_count + error_count

(* scenario 4 of the spec: four pairs, one remote failure *)
C1_Witness ==
    /\ pc = "done"
    /\ caller = "api"
    /\ returned[1].total = 4
    /\ returned[1].success = 3
    /\ returned[1].failed = 1

(* C2: failure isolation. Whatever the outcomes so far, the pairs attempted
   are the first k - 1 pairs of the loops, in order, and when the batch has
   returned they are all of them: a failure on one pair never keeps a later
   pair from being attempted. *)
C2_FailureIsolation ==
    pc \in {"loop", "listing", "creating", "done"} =>
        /\ k <= Len(plan) + 1
        /\ Attempted = SubSeq(plan, 1, k - 1)
        /\ pc = "done" => Attempted = plan

(* the first pair failed and the three after it were attempted *)
C2_Witness ==
    /\ pc = "done"
    /\ Len(log) = 4
    /\ log[1].event = "failed"
    /\ log[4].event = "assigned"

(* C3: cross-product correctness. With override_existing true a finished
   batch has issued len(group_ids) * len(app_ids) create requests, all for
   pairs of the cross-product, and, the groups and apps being sets, exactly
   one for each pair of G x A. *)
C3_CrossProduct ==
    (pc = "done" /\ args.override_existing) =>
        /\ Len(CreateCalls) = Len(group_ids) * Len(app_ids)
        /\ \A n \in DOMAIN CreateCalls :
              /\ CreateCalls[n].target_type = "group"
              /\ Pair(CreateCalls[n].app_id, CreateCalls[n].target_id) \in CrossProduct
        /\ (Len(group_ids) = Cardinality(BatchGroups) /\ Len(app_ids) = Cardinality(BatchApps)) =>
              /\ Len(CreateCalls) = Cardinality(BatchGroups) * Cardinality(BatchApps)
              /\ \A p \in CrossProduct :
                    Cardinality({ n \in DOMAIN CreateCalls :
                                    Pair(CreateCalls[n].app_id, CreateCalls[n].target_id) = p }) = 1

(* the screen applied two groups to two apps with the override box checked *)
C3_Witness ==
    /\ pc = "done"
    /\ caller = "tui"
    /\ args.override_existing
    /\ Cardinality(selected_groups) = 2
    /\ Cardinality(selected_apps) = 2
    /\ Len(CreateCalls) = 4

(* the pairs the service held an assignment for before the batch *)
SeededPairs == { Pair(x.app_id, x.group_id) : x \in seeded }

CreatedPairs == { Pair(c.app_id, c.target_id) : c \in Range(CreateCalls) }

IsFailedListing(c) == c.op = "list" /\ c.status = "error"

(* C4: dedup policy. With override_existing false, when the listing comes
   back and the service holds, for the app, an assignment whose target is the
   group, whatever its intent, the step that takes the listing issues no
   create request and counts the pair as a success, not as a failure. *)
C4_DedupPolicy ==
    [][ ( /\ pc = "listing"
          /\ ~args.override_existing
          /\ calls'[Len(calls)].status = "ok"
          /\ \E x \in assignments : /\ x.app_id = plan[k].app_id
                                    /\ x.target_type = GroupTarget
                                    /\ x.group_id = plan[k].group_id )
        => ( /\ Len(calls') = Len(calls)
             /\ assignments' = assignments
             /\ pc' = "loop"
             /\ k' = k + 1
             /\ IF caller = "api"
                THEN /\ results'.success = results.success + 1
                     /\ results'.failed = results.failed
                     /\ results'.errors = results.errors
                ELSE /\ success_count' = success_count + 1
                     /\ error_count' = error_count ) ]_vars

(* a pair was skipped although the assignment held has another intent than
   the one asked for *)
C4_Witness ==
    \E n \in DOMAIN log :
        /\ log[n].event = "exists"
        /\ \E x \in seeded : /\ x.app_id = log[n].app_id
                             /\ x.group_id = log[n].group_id
                             /\ x.intent # args.intent
        /\ ~\E c \in Range(CreateCalls) : c.k = n

(* C5: dedup correctness. With override_existing false and every listing
   answered, a finished batch has issued create requests for exactly the
   pairs of the cross-product the service held no assignment for: the pairs
   created and the pairs held are disjoint, and together they make up the
   cross-product. *)
C5_DedupCorrectness ==
    ( /\ pc = "done"
      /\ ~args.override_existing
      /\ \A c \in Range(ListCalls) : c.status = "ok" )
    => /\ CreatedPairs = CrossProduct \ SeededPairs
       /\ CreatedPairs \cap SeededPairs = {}
       /\ CreatedPairs \cup (SeededPairs \cap CrossProduct) = CrossProduct

(* scenario 2 of the spec: G1 with A1 and A2, and (A1, G1) held already *)
C5_Witness ==
    /\ pc = "done"
    /\ ~args.override_existing
    /\ BatchGroups = {"G1"}
    /\ BatchApps = {"A1", "A2"}
    /\ Pair("A1", "G1") \in SeededPairs
    /\ CreatedPairs = {Pair("A2", "G1")}
    /\ \A c \in Range(ListCalls) : c.status = "ok"

(* C6: no failure of a request leaves bulk_assign_apps as an exception. The
   errors list holds, in order, one entry for each failed request, with the
   pair of the request and the message of the exception unchanged, and the
   batch returns its results. *)
C6_FailuresRecorded ==
    caller = "api" =>
        /\ pc # "raised"
        /\ Len(results.errors) = Len(FailedCalls)
        /\ \A n \in DOMAIN FailedCalls :
              results.errors[n] = [app_id |-> plan[FailedCalls[n].k].app_id,
                                   group_id |-> plan[FailedCalls[n].k].group_id,
                                   error |-> FailedCalls[n].error.message]
        /\ pc = "done" => returned = <<results>>

(* two create requests failed with different exceptions and the call returned *)
C6_Witness ==
    /\ pc = "done"
    /\ caller = "api"
    /\ Len(returned) = 1
    /\ Len(returned[1].errors) = 2
    /\ returned[1].errors[1].error = "token expired"
    /\ returned[1].errors[2].error = "quota exceeded"
    /\ \A c \in Range(FailedCalls) : c.op = "create"

(* C7: validation. A press of Apply while no group or no app is selected
   shows the error notification and does nothing else: no request is sent,
   the service is unchanged and no batch starts. *)
C7_Validation ==
    [][ (apply_assignments /\ (selected_groups = {} \/ selected_apps = {}))
        => ( /\ toast'.severity = "error"
             /\ toast'.message = <<"Please select at least one group and one app">>
             /\ calls' = calls
             /\ assignments' = assignments
             /\ pc' = "idle"
             /\ UNCHANGED batchVars ) ]_vars

(* scenario 3 of the spec: Apply was pressed with an app and no group selected *)
C7_Witness ==
    /\ toast.severity = "error"
    /\ selected_groups = {}
    /\ selected_apps = {"A1"}
    /\ pc = "idle"
    /\ calls = <<>>

(* C8: a listing that fails is never taken for an empty listing. No create
   request is issued for the pair whose listing failed, and that pair is
   logged as failed. *)
C8_NoCreateAfterFailedListing ==
    \A i \in DOMAIN calls :
        IsFailedListing(calls[i]) =>
            /\ ~\E j \in DOMAIN calls : calls[j].op = "create" /\ calls[j].k = calls[i].k
            /\ calls[i].k \in DOMAIN log
            /\ log[calls[i].k].event = "failed"

(* the listing failed for a pair the service holds an assignment for *)
C8_Witness ==
    /\ pc = "done"
    /\ \E i \in DOMAIN calls :
          /\ IsFailedListing(calls[i])
          /\ Pair(calls[i].app_id, plan[calls[i].k].group_id) \in SeededPairs

(* C9 as the spec states it: after a listing has failed, no further request
   is issued. *)
C9_StopsAfterFailedListing ==
    \A i \in DOMAIN calls : IsFailedListing(calls[i]) => i = Len(calls)

(* C9 as the code has it: with override_existing false a listing that fails
   is reported as the failure of its own pair, and the batch goes on: when
   it has returned, the request after the failed one is the listing of the
   next pair. *)
C9_FailedListingIsolated ==
    \A i \in DOMAIN calls :
        IsFailedListing(calls[i]) =>
            /\ ~args.override_existing
            /\ log[calls[i].k] = log_record("error", "failed", plan[calls[i].k],
                                            calls[i].error.message)
            /\ caller = "api" =>
                  \E n \in DOMAIN results.errors :
                      results.errors[n] = [app_id |-> plan[calls[i].k].app_id,
                                           group_id |-> plan[calls[i].k].group_id,
                                           error |-> calls[i].error.message]
            /\ (pc = "done" /\ calls[i].k < Len(plan)) =>
                  /\ i < Len(calls)
                  /\ calls[i + 1].op = "list"
                  /\ calls[i + 1].k = calls[i].k + 1

(* the listing of the first pair failed and the batch finished its four pairs *)
C9_Witness ==
    /\ pc = "done"
    /\ Len(plan) = 4
    /\ IsFailedListing(calls[1])
    /\ Len(ListCalls) = 4

(* C10 as the spec states it: with override_existing false a batch issues
   one listing request per distinct app. *)
C10_OneListingPerApp ==
    (pc = "done" /\ ~args.override_existing) => Len(ListCalls) = Cardinality(BatchApps)

(* C10 as the code has it: with override_existing false a batch issues one
   listing request per pair, len(group_ids) * len(app_ids) in all, the n-th
   of them for the app of the n-th pair. *)
C10_OneListingPerPair ==
    (pc = "done" /\ ~args.override_existing) =>
        /\ Len(ListCalls) = Len(group_ids) * Len(app_ids)
        /\ \A n \in DOMAIN ListCalls :
              /\ ListCalls[n].k = n
              /\ ListCalls[n].app_id = plan[n].app_id

(* one app and two groups: the app was listed twice *)
C10_Witness ==
    /\ pc = "done"
    /\ ~args.override_existing
    /\ Cardinality(BatchApps) = 1
    /\ Cardinality(BatchGroups) = 2
    /\ Len(ListCalls) = 2

(* C11: with override_existing true no listing request is ever issued: every
   request of the batch is a create request. *)
C11_NoListingWhenOverride ==
    args.override_existing => \A i \in DOMAIN calls : calls[i].op = "create"

(* four pairs were applied with override_existing true *)
C11_Witness ==
    /\ pc = "done"
    /\ args.override_existing
    /\ Len(calls) = 4
    /\ ListCalls = <<>>

(* C12: no automatic retry. At most one create request is issued per turn
   of the loops, so, the groups and apps being sets, at most one per pair; a
   create request that failed is the last request of its pair, and the pair
   is logged as failed. *)
C12_NoRetry ==
    /\ \A i, j \in DOMAIN calls :
          (calls[i].op = "create" /\ calls[j].op = "create" /\ calls[i].k = calls[j].k) => i = j
    /\ (Len(group_ids) = Cardinality(BatchGroups) /\ Len(app_ids) = Cardinality(BatchApps)) =>
          \A i, j \in DOMAIN CreateCalls :
              (/\ CreateCalls[i].app_id = CreateCalls[j].app_id
               /\ CreateCalls[i].target_id = CreateCalls[j].target_id) => i = j
    /\ \A i \in DOMAIN calls :
          (calls[i].op = "create" /\ calls[i].status = "error") =>
              /\ \A j \in DOMAIN calls : j > i => calls[j].k > calls[i].k
              /\ log[calls[i].k].event = "failed"

(* the create request of the first pair failed and the batch finished *)
C12_Witness ==
    /\ pc = "done"
    /\ Len(plan) = 4
    /\ calls[1].op = "create"
    /\ calls[1].status = "error"
    /\ Len(CreateCalls) = 4

IsAuthFailure(c) == c.status = "error" /\ c.error.type = "ClientAuthenticationError"

(* C13 as the spec states it: an authentication error ends the whole
   operation: the batch is left by the exception and no further request
   follows. *)
C13_AuthErrorEndsBatch ==
    \A i \in DOMAIN calls :
        IsAuthFailure(calls[i]) => (pc = "raised" /\ i = Len(calls))

(* C13 as the code has it: an authentication error is caught like any other
   failure of a request: it is logged as the failure of its own pair with
   its message, the batch is never left by the exception, and when the batch
   has returned the next pair had its request. *)
C13_AuthErrorIsPairFailure ==
    \A i \in DOMAIN calls :
        IsAuthFailure(calls[i]) =>
            /\ pc # "raised"
            /\ log[calls[i].k] = log_record("error", "failed", plan[calls[i].k],
                                            calls[i].error.message)
            /\ caller = "api" =>
                  \E n \in DOMAIN results.errors :
                      results.errors[n] = [app_id |-> plan[calls[i].k].app_id,
                                           group_id |-> plan[calls[i].k].group_id,
                                           error |-> calls[i].error.message]
            /\ (pc = "done" /\ calls[i].k < Len(plan)) =>
                  /\ i < Len(calls)
                  /\ calls[i + 1].k = calls[i].k + 1

(* the first request met an authentication error and all four pairs were
   attempted *)
C13_Witness ==
    /\ pc = "done"
    /\ Len(plan) = 4
    /\ IsAuthFailure(calls[1])
    /\ Len(log) = 4

(* C20: no partial result is observable.  The dict bulk_assign_apps returns
   and the completion notification of apply_assignments exist only once
   every pair of the plan has been attempted and counted; while the batch is
   running, and when it was cancelled, neither has been delivered. *)
C20_NoPartialResult ==
    /\ returned # <<>> =>
          /\ pc = "done"
          /\ Len(log) = Len(plan)
          /\ returned[1].success + returned[1].failed = returned[1].total
          /\ returned[1].total = Len(plan)
    /\ toast.title = "Assignment Complete" =>
          /\ pc = "done"
          /\ Len(log) = Len(plan)
          /\ toast.message[2] + toast.message[4] = Len(plan)
    /\ pc \in {"loop", "listing", "creating", "raised"} =>
          /\ returned = <<>>
          /\ toast.title # "Assignment Complete"

(* bulk_assign_apps returned the result of four pairs, one of them failed *)
C20_Witness ==
    /\ pc = "done"
    /\ returned # <<>>
    /\ returned[1].total = 4
    /\ returned[1].failed = 1
    /\ returned[1].success = 3

(* the assignments of app a to group g the service holds *)
GroupAssignments(a, g) ==
    { x \in assignments :
        x.app_id = a /\ x.target_type = GroupTarget /\ x.group_id = g }

(* C19: idempotent re-application.  With override_existing false, when a
   batch completed with every pair successful and is run again, the second
   run issues no create request; every pair whose listing is answered is
   reported as success, so a second run whose listings are all answered
   reports every pair as success; and the service holds at most one
   assignment per (app, group) pair of the batch. *)
C19_IdempotentRerun ==
    (/\ previous # <<>>
     /\ previous[1].failed = 0
     /\ ~args.override_existing) =>
        /\ CreateCalls = <<>>
        /\ \A i \in DOMAIN calls :
              calls[i].status = "ok" => log[calls[i].k].event = "exists"
        /\ (pc = "done" /\ FailedCalls = <<>>) =>
              /\ Len(log) = Len(plan)
              /\ \A i \in DOMAIN log : log[i].event = "exists"
              /\ caller = "api" =>
                    (returned[1].success = returned[1].total /\ returned[1].failed = 0)
              /\ caller = "tui" =>
                    (toast.message[2] = Len(plan) /\ toast.message[4] = 0)
        /\ \A n \in DOMAIN plan :
              Cardinality(GroupAssignments(plan[n].app_id, plan[n].group_id)) <= 1

(* four pairs, none of them on the service before, were assigned by the
   first run and found by the listings of the second run *)
C19_Witness ==
    /\ previous # <<>>
    /\ previous[1].failed = 0
    /\ ~args.override_existing
    /\ pc = "done"
    /\ Len(plan) = 4
    /\ Len(ListCalls) = 4
    /\ FailedCalls = <<>>
    /\ SeededPairs = {}

(* C14: toggling is an involution.  One toggle of a card adds its id to the
   selected set if it was absent and removes it if it was present, touching
   no other id; the card can be clicked again, and toggling the same id once
   more gives the selected set of before.  The same for apps. *)
C14_ToggleInvolution ==
    [][ /\ \A g \in GroupIds :
              toggle_group_selection(g) =>
                  /\ g \in selected_groups' <=> g \notin selected_groups
                  /\ selected_groups' \ {g} = selected_groups \ {g}
                  /\ selected_apps' = selected_apps
                  /\ pc' = "idle" /\ g \in visible(group_cards')
                  /\ toggled(selected_groups', g) = selected_groups
        /\ \A a \in AppIds :
              toggle_app_selection(a) =>
                  /\ a \in selected_apps' <=> a \notin selected_apps
                  /\ selected_apps' \ {a} = selected_apps \ {a}
                  /\ selected_groups' = selected_groups
                  /\ pc' = "idle" /\ a \in visible(app_cards')
                  /\ toggled(selected_apps', a) = selected_apps ]_vars

(* the last click hit the card of G1 and G1 is not selected: where clicks on
   cards are all that changes the selection, G1 was toggled on and off again *)
C14_Witness ==
    /\ pc = "idle"
    /\ clicked = "G1"
    /\ selected_groups = {}
    /\ selected_apps = {"A1"}

(* C15: the count of the summary.  Once the screen is mounted the summary
   shows the sizes of the two selected sets and their product, whatever
   toggles, select-alls and clears came before; with override_existing true
   the product is the number the Apply that follows announces and the number
   of create requests it has issued when it is done. *)
C15_PlanCount ==
    /\ pc \notin {"constructed", "mount_groups", "mount_apps"} =>
          /\ summary.groups = Cardinality(selected_groups)
          /\ summary.apps = Cardinality(selected_apps)
          /\ summary.assignments = Cardinality(selected_groups) * Cardinality(selected_apps)
    /\ pc \in {"loop", "listing", "creating", "done"} =>
          /\ toast.title = "Processing" => toast.message[2] = summary.assignments
          /\ args.override_existing => Len(CreateCalls) <= summary.assignments
          /\ (args.override_existing /\ pc = "done") =>
                Len(CreateCalls) = summary.assignments

(* both Select All buttons were used, the summary shows four assignments and
   the Apply that followed has issued four create requests *)
C15_Witness ==
    /\ pc = "done"
    /\ args.override_existing
    /\ summary.assignments = 4
    /\ Len(CreateCalls) = 4
    /\ loading = {}

(* C16 as the spec states it: after Select All the selected set is exactly
   the set of the displayed ids. *)
C16_SelectAllReplaces ==
    [][ /\ select_all_groups => selected_groups' = visible(group_cards)
        /\ select_all_apps => selected_apps' = visible(app_cards) ]_vars

(* C16 as the code has it: Select All adds.  Afterwards every displayed id
   is selected, every id selected before is still selected, displayed or
   not, and nothing else is. *)
C16_SelectAllAdds ==
    [][ /\ select_all_groups =>
              /\ visible(group_cards) \subseteq selected_groups'
              /\ selected_groups \subseteq selected_groups'
              /\ selected_groups' \subseteq (selected_groups \cup visible(group_cards))
              /\ selected_apps' = selected_apps
        /\ select_all_apps =>
              /\ visible(app_cards) \subseteq selected_apps'
              /\ selected_apps \subseteq selected_apps'
              /\ selected_apps' \subseteq (selected_apps \cup visible(app_cards))
              /\ selected_groups' = selected_groups ]_vars

(* Select All of the apps was pressed while the filter hid the card of A2,
   selected before: both apps are selected *)
C16_Witness ==
    /\ pc = "idle"
    /\ clicked = "select-all-apps"
    /\ visible(app_cards) = {"A1"}
    /\ DOMAIN app_cards = AppIds
    /\ selected_apps = {"A1", "A2"}

(* C17 as the spec states it: once the screen is mounted, every selected id
   is an id of the list fetched last, and so is every id of a pair the batch
   acts on. *)
C17_NoDanglingReferences ==
    pc \notin {"constructed", "mount_groups", "mount_apps"} =>
        /\ selected_groups \subseteq self_groups
        /\ selected_apps \subseteq self_apps
        /\ \A i \in DOMAIN calls :
              calls[i].op = "create" =>
                  (calls[i].target_id \in self_groups /\ calls[i].app_id \in self_apps)

(* C18: the batch of the screen runs on the selection as it was when Apply
   was pressed.  Apply takes the two selected sets as they are; while the
   batch is suspended on a request or between two pairs, no step changes the
   selected sets, the settings, the plan or starts another batch; when the
   batch is done the pairs attempted are the cross-product of the selection. *)
C18_BatchUninterleaved ==
    [][ /\ (pc = "idle" /\ pc' = "loop") =>
              /\ Range(group_ids') = selected_groups
              /\ Range(app_ids') = selected_apps
              /\ Len(group_ids') = Cardinality(selected_groups)
              /\ Len(app_ids') = Cardinality(selected_apps)
        /\ pc \in {"loop", "listing", "creating"} =>
              /\ selected_groups' = selected_groups
              /\ selected_apps' = selected_apps
              /\ widgets' = widgets
              /\ <<group_ids', app_ids', args'>> = <<group_ids, app_ids, args>>
              /\ k' >= k
              /\ pc' \in {"loop", "listing", "creating", "done"}
              /\ Len(calls') >= Len(calls)
              /\ pc' = "done" =>
                    /\ Range(Attempted') =
                          { Pair(a, g) : a \in selected_apps, g \in selected_groups }
                    /\ Len(log') = Cardinality(selected_groups) * Cardinality(selected_apps)
      ]_vars

(* a batch of four pairs is suspended on its third request while a refresh
   has reloaded the groups and still loads the apps *)
C18_Witness ==
    /\ pc = "creating"
    /\ Len(plan) = 4
    /\ k = 3
    /\ loading = {"load_apps"}
    /\ clicked = "apply"

(* the pairs of the failed invocations of assign_app_to_group, in the order
   they were attempted *)
FailedPairs ==
    LET failed == SelectSeq(log, LAMBDA r : r.event = "failed")
    IN  [n \in DOMAIN failed |-> Pair(failed[n].app_id, failed[n].group_id)]

(* C21: sequential execution.  At most one request is outstanding at any
   time, and it is the one sent last; the requests are sent in the order of
   the plan; the entries of the errors list of bulk_assign_apps are the
   failed pairs in the order they were attempted. *)
C21_Sequential ==
    /\ \A i \in DOMAIN calls : calls[i].status = "pending" => i = Len(calls)
    /\ \A i, j \in DOMAIN calls : i < j => calls[i].k <= calls[j].k
    /\ caller = "api" =>
          /\ Len(results.errors) = Len(FailedPairs)
          /\ \A n \in DOMAIN results.errors :
                Pair(results.errors[n].app_id, results.errors[n].group_id) = FailedPairs[n]

(* bulk_assign_apps returned with two failures: the first and the last of
   its four pairs *)
C21_Witness ==
    /\ pc = "done"
    /\ caller = "api"
    /\ Len(plan) = 4
    /\ Len(results.errors) = 2
    /\ log[1].event = "failed"
    /\ log[4].event = "failed"
    /\ FailedPairs[1] # FailedPairs[2]

(* the place of x in a sequence that names it once *)
Pos(seq, x) == CHOOSE i \in DOMAIN seq : seq[i] = x

NoRepetition == Len(group_ids) = Cardinality(Range(group_ids))
                    /\ Len(app_ids) = Cardinality(Range(app_ids))

(* all pairs of an earlier group come before any pair of a later group, and
   the pairs of one group come in the order of the apps *)
GroupMajor ==
    \A i, j \in DOMAIN Attempted :
        i < j =>
            \/ Pos(group_ids, Attempted[i].group_id) < Pos(group_ids, Attempted[j].group_id)
            \/ /\ Attempted[i].group_id = Attempted[j].group_id
               /\ Pos(app_ids, Attempted[i].app_id) < Pos(app_ids, Attempted[j].app_id)

(* all pairs of an earlier app come before any pair of a later app, and the
   pairs of one app come in the order of the groups *)
AppMajor ==
    \A i, j \in DOMAIN Attempted :
        i < j =>
            \/ Pos(app_ids, Attempted[i].app_id) < Pos(app_ids, Attempted[j].app_id)
            \/ /\ Attempted[i].app_id = Attempted[j].app_id
               /\ Pos(group_ids, Attempted[i].group_id) < Pos(group_ids, Attempted[j].group_id)

(* C22 as the spec states it: every batch attempts its pairs group by group. *)
C22_GroupMajor == NoRepetition => GroupMajor

(* C22 as the code has it: the batch of the screen attempts its pairs group
   by group, all apps of the first group before any pair of the second;
   bulk_assign_apps attempts them app by app, all groups of the first app
   before any pair of the second. *)
C22_PlanOrder ==
    NoRepetition =>
        /\ caller = "tui" => GroupMajor
        /\ caller = "api" => AppMajor

(* bulk_assign_apps went through two apps and two groups: its second pair
   is the first app with the second group *)
C22_Witness ==
    /\ pc = "done"
    /\ caller = "api"
    /\ NoRepetition
    /\ Len(log) = 4
    /\ Attempted[2].app_id = Attempted[1].app_id
    /\ Attempted[2].group_id # Attempted[1].group_id
    /\ Attempted[3].app_id # Attempted[1].app_id

(* C24: the options are uniform across a batch.  Every create request
   carries the intent, the notification setting and the restart setting the
   batch was started with, so no two create requests of a batch differ in
   them; in the batch of the screen these are the values the widgets had
   when Apply was pressed, and the widgets keep them while the batch runs. *)
C24_UniformOptions ==
    /\ \A i \in DOMAIN CreateCalls :
          /\ CreateCalls[i].intent = args.intent
          /\ CreateCalls[i].notifications = (IF args.notify THEN "showAll" ELSE "hideAll")
          /\ CreateCalls[i].restart_required = args.restart_required
    /\ \A i, j \in DOMAIN CreateCalls :
          /\ CreateCalls[i].intent = CreateCalls[j].intent
          /\ CreateCalls[i].notifications = CreateCalls[j].notifications
          /\ CreateCalls[i].restart_required = CreateCalls[j].restart_required
    /\ (caller = "tui" /\ pc \in {"loop", "listing", "creating", "done"}) =>
          /\ args.intent = widgets.intent
          /\ args.notify = widgets.notify
          /\ args.restart_required = widgets.restart
          /\ args.override_existing = widgets.override

(* the screen applied four pairs as uninstall, without notification and
   with restart *)
C24_Witness ==
    /\ pc = "done"
    /\ caller = "tui"
    /\ Len(CreateCalls) = 4
    /\ CreateCalls[1].intent = "uninstall"
    /\ CreateCalls[4].notifications = "hideAll"
    /\ CreateCalls[4].restart_required

(* C25: the running counts of bulk_assign_apps.  At every point of the
   batch success + failed is the number of pairs assign_app_to_group has
   finished with, the errors list has one entry per failed pair, total is
   len(app_ids) * len(group_ids) as at the start, and each finished pair is
   counted in exactly one of success and failed. *)
C25_RunningCounts ==
    (caller = "api" /\ pc \in {"loop", "listing", "creating", "done"}) =>
        /\ results.success + results.failed = Len(log)
        /\ results.success + results.failed = k - 1
        /\ Len(results.errors) = results.failed
        /\ results.total = Len(app_ids) * Len(group_ids)
        /\ results.failed = Cardinality({ i \in DOMAIN log : log[i].event = "failed" })
        /\ results.success = Cardinality({ i \in DOMAIN log : log[i].event # "failed" })
        /\ pc \in {"listing", "creating"} => results.success + results.failed < results.total

(* bulk_assign_apps is suspended on the request of its third pair, one pair
   counted as success and one as failed *)
C25_Witness ==
    /\ caller = "api"
    /\ pc = "creating"
    /\ k = 3
    /\ results.success = 1
    /\ results.failed = 1
    /\ results.total = 4

(* C23: preview is read-only.  A press of Preview sends no request and
   changes neither the selected sets nor the fetched lists nor the service,
   whether a set is empty or not; with both sets non-empty the total it
   shows is the product of their sizes, with a set empty it shows the
   warning and no total. *)
C23_PreviewReadOnly ==
    [][ preview_assignments =>
          /\ calls' = calls
          /\ assignments' = assignments
          /\ selected_groups' = selected_groups
          /\ selected_apps' = selected_apps
          /\ self_groups' = self_groups
          /\ self_apps' = self_apps
          /\ <<group_cards', app_cards', summary', pc'>> = <<group_cards, app_cards, summary, pc>>
          /\ IF selected_groups = {} \/ selected_apps = {}
             THEN toast'.severity = "warning"
             ELSE /\ toast'.title = "Assignment Preview"
                  /\ toast'.message[2] = Cardinality(selected_groups) * Cardinality(selected_apps)
      ]_vars

(* the preview of two groups and two apps is on the screen *)
C23_Witness ==
    /\ pc = "idle"
    /\ clicked = "preview"
    /\ toast.title = "Assignment Preview"
    /\ toast.message[2] = 4
    /\ Cardinality(selected_groups) = 2
    /\ Cardinality(selected_apps) = 2
    /\ calls = <<>>

(* C26: the search filters never change the selection.  A change of a
   search field leaves both selected sets and the summary as they were; an
   id that is selected while its card is hidden leaves the selected set only
   by the Clear button; and Apply takes the whole selected set, hidden ids
   included, so a finished batch has attempted their pairs. *)
C26_FilterKeepsSelection ==
    [][ /\ \A t \in SearchTerms :
              (filter_groups(t) \/ filter_apps(t)) =>
                  /\ selected_groups' = selected_groups
                  /\ selected_apps' = selected_apps
                  /\ summary' = summary
        /\ \A g \in selected_groups \ visible(group_cards) :
              g \notin selected_groups' => (clicked' = "clear-groups" /\ selected_groups' = {})
        /\ \A a \in selected_apps \ visible(app_cards) :
              a \notin selected_apps' => (clicked' = "clear-apps" /\ selected_apps' = {})
        /\ (pc = "idle" /\ pc' = "loop") =>
              (Range(group_ids') = selected_groups /\ Range(app_ids') = selected_apps)
        /\ pc' = "done" =>
              \A g \in selected_groups', a \in selected_apps' :
                  \E n \in DOMAIN log' : log'[n].group_id = g /\ log'[n].app_id = a
      ]_vars

(* G2 was selected, then hidden by the group filter; the summary counts it
   and the batch that followed attempted its pairs *)
C26_Witness ==
    /\ pc = "done"
    /\ DOMAIN group_cards = GroupIds
    /\ visible(group_cards) = {"G1"}
    /\ selected_groups = GroupIds
    /\ summary.groups = 2
    /\ \E n \in DOMAIN log : log[n].group_id = "G2"

DeleteCalls == SelectSeq(calls, LAMBDA c : c.op = "delete")

(* C27: clear_app_assignments.  The delete requests are for the listed
   assignments, one at a time and in the order of the listing; when every
   delete succeeded the call returns the number listed and the service holds
   none of them; when the listing or a delete failed the call raises, the
   failed request is the last one sent, and the assignments deleted before
   stay deleted while the others are still there. *)
C27_ClearAppAssignments ==
    clear.pc # "idle" =>
        /\ \A i \in DOMAIN calls : calls[i].status = "pending" => i = Len(calls)
        /\ Len(DeleteCalls) <= Len(clear.listed)
        /\ \A i \in DOMAIN DeleteCalls :
              /\ DeleteCalls[i].assignment = clear.listed[i]
              /\ DeleteCalls[i].app_id = clear.app_id
        /\ clear.pc = "returned" =>
              /\ clear.result = <<Len(clear.listed)>>
              /\ Len(DeleteCalls) = Len(clear.listed)
              /\ \A i \in DOMAIN calls : calls[i].status = "ok"
              /\ assignments = seeded \ Range(clear.listed)
        /\ clear.pc = "raised" =>
              /\ clear.result = <<>>
              /\ calls[Len(calls)].status = "error"
              /\ \A i \in 1..(Len(calls) - 1) : calls[i].status = "ok"
              /\ assignments = seeded \ { clear.listed[i] : i \in 1..clear.count }
              /\ Len(DeleteCalls) <= clear.count + 1
        /\ clear.pc # "returned" => clear.result = <<>>

(* the second of two deletes failed: the call raised and left the app with
   one of its two assignments *)
C27_Witness ==
    /\ clear.pc = "raised"
    /\ Len(clear.listed) = 2
    /\ clear.count = 1
    /\ Len(DeleteCalls) = 2
    /\ Cardinality({ x \in assignments : x.app_id = clear.app_id }) = 1

RECURSIVE Flatten(_)
(* the objects of all pages, in page order *)
Flatten(chain) == IF chain = <<>> THEN <<>> ELSE Head(chain) \o Flatten(Tail(chain))

FetchedIds == [n \in DOMAIN fetch.items |-> fetch.items[n].id]

(* what holds of get_all_* in every state: the objects collected are those
   of the pages answered so far, in order; a returned list holds the objects
   of every page once, in page order; nothing is returned before the page
   without next link, nor when a request failed *)
PagesInOrder ==
    fetch.pc # "idle" =>
        /\ fetch.page \in 1..Len(fetch.chain)
        /\ fetch.pc = "requesting" =>
              FetchedIds = Flatten(SubSeq(fetch.chain, 1, fetch.page - 1))
        /\ fetch.pc = "returned" =>
              /\ fetch.page = Len(fetch.chain)
              /\ FetchedIds = Flatten(fetch.chain)
              /\ fetch.result = <<fetch.items>>
              /\ \A i, j \in DOMAIN fetch.items :
                    fetch.items[i].id = fetch.items[j].id => i = j
        /\ fetch.pc # "returned" => fetch.result = <<>>

(* C28: paginated fetching.  get_all_groups, get_all_apps and
   get_all_devices follow the next links until a page has none and return
   the objects of every page, in page order, none dropped or repeated; a
   request that fails makes the call raise with no list returned; the chain
   of pages being finite, the call comes to an end. *)
C28_Pagination ==
    /\ []PagesInOrder
    /\ (fetch.pc = "requesting") ~> (fetch.pc \in {"returned", "raised"})

(* get_all_groups returned three groups from three pages, the second page
   empty, one member request failed *)
C28_Witness ==
    /\ fetch.pc = "returned"
    /\ fetch.kind = "groups"
    /\ Len(fetch.chain) = 3
    /\ fetch.chain[2] = <<>>
    /\ Len(fetch.chain[3]) = 2
    /\ Len(fetch.result[1]) = 3
    /\ fetch.result[1][1].memberCount = 0

(* what holds of the start-up in every state *)
StartupOrder ==
    /\ app.graph_client # None =>
          /\ auth.result = "True"
          /\ auth.is_authenticated
          /\ app.graph_client = auth.obtained
    /\ app.main_interface = "loaded" =>
          /\ app.graph_client # None
          /\ app.user \in Users
    /\ pc # "constructed" => app.main_interface = "loaded"
    /\ auth.result \in {"ValueError", "ClientAuthenticationError"} =>
          app.exited /\ app.graph_client = None
    /\ app.exited => app.main_interface = ""
    /\ app.pc = "exited" <=> app.exited
    /\ (app.exited /\ app.auth_method = None) => ~app.auth_manager

(* C29: start-up ordering.  The Graph client is created, and the main
   interface loaded, only after the chosen authenticate_* returned; the main
   interface, and with it the assignment screen, only after get_current_user
   succeeded as well; when authentication or the connection test fails, or
   the login screen is left without a method, the application exits and the
   main interface is not loaded then or later. *)
C29_StartupOrdering ==
    /\ []StartupOrder
    /\ [][app.exited => (app'.exited /\ app'.main_interface = "")]_vars

(* the custom-app login succeeded, the interface was loaded, and the
   assignment screen fetched its groups with the client *)
C29_Witness ==
    /\ app.auth_method = "custom"
    /\ app.main_interface = "loaded"
    /\ app.graph_client = <<"ClientSecretCredential", 1>>
    /\ pc = "idle"
    /\ selected_groups # {}

(* C30: in every state of AuthManager, a suspended authenticate_* included,
   is_authenticated implies that a credential is held and that it is the
   credential whose validation obtained a token; after a successful logout
   the credential is None and is_authenticated is False. *)
C30_AuthenticatedCredentialValidated ==
    /\ auth.is_authenticated =>
          /\ auth.credential # None
          /\ auth.credential = auth.obtained
    /\ auth.result = "logout True" =>
          /\ auth.credential = None
          /\ ~auth.is_authenticated

====
